---- MODULE Spec2Model ----
(***************************************************************************)
(* The browser client of the MoodBoard Agent: the App component (the       *)
(* request orchestrator: analyzing / result / error / resetKey), the       *)
(* ImageUpload component (preview, file validation, FileReader preview     *)
(* decode; its dragActive flag only styles the drop area and is left out)  *)
(* and the pure helpers of the result renderer.                            *)
(*                                                                         *)
(* One action is one run-to-completion segment of a handler on the event   *)
(* loop: an event handler, or the continuation of handleImageUpload after  *)
(* one of its two awaits (fetch, response.json), or a FileReader callback. *)
(* JavaScript values are records tagged by t, strings that the code        *)
(* inspects are sequences of one-character strings.                        *)
(***************************************************************************)
EXTENDS Integers, Sequences, FiniteSets, TLC

VARIABLES
    analyzing,   \* App: useState(false)
    result,      \* App: useState(null)
    error,       \* App: useState(null)
    resetKey,    \* App: useState(0), the key of the mounted ImageUpload
    preview,     \* ImageUpload (mounted instance): useState(null)
    requests,    \* invocations of handleImageUpload suspended at an await
    readers,     \* FileReaders whose onloadend has not fired yet
    nextId,      \* number of the next accepted file (names requests/readers)
    last,        \* history: the handler segment that ran last, with its inputs
    durIn,       \* formatDuration: the argument ms
    durOut,      \* formatDuration: the returned string (<<>> before the call)
    moodIn,      \* getMoodEmoji: the argument mood
    moodOut      \* getMoodEmoji: the returned value (NotCalled before the call)

vars == <<analyzing, result, error, resetKey, preview,
          requests, readers, nextId, last, durIn, durOut, moodIn, moodOut>>

appVars == <<analyzing, result, error, resetKey, requests>>
uploadVars == <<preview, readers>>
fmtVars == <<durIn, durOut, moodIn, moodOut>>

----------------------------------------------------------------------------
(* Bounds of the model *)

MaxSubmits == 2        \* accepted files (requests issued) in one behaviour
MaxHalfSeconds == 250  \* durations up to MaxHalfSeconds * 500 ms (+ 499)
MaxUpper == 4          \* mood labels with up to MaxUpper leading capitals

----------------------------------------------------------------------------
(* JavaScript values *)

Null == [t |-> "null"]
Undefined == [t |-> "undefined"]
NotCalled == [t |-> "none"]            \* no value: the function has not returned
JStr(s) == [t |-> "string", v |-> s]   \* s: the text of a message

\* ToBoolean, as used by `result || error`, `error &&`, `result &&`, `preview ?`
Truthy(v) ==
    CASE v.t \in {"null", "undefined"} -> FALSE
      [] v.t = "string" -> v.v # ""
      [] OTHER -> TRUE

\* Variant of StartsWith: the prefix found at any position (String.prototype.includes)
StartsWithAnywhere(s, p) ==
    \E k \in 0..(Len(s) - Len(p)) : \A i \in 1..Len(p) : s[k + i] = p[i]

\* String.prototype.startsWith on sequences of characters
StartsWith(s, p) ==
    /\ Len(s) >= Len(p)
    /\ \A i \in 1..Len(p) : s[i] = p[i]

ImagePrefix == <<"i", "m", "a", "g", "e", "/">>

----------------------------------------------------------------------------
(* Inputs: files offered by a drop or by the picker *)

TypePng == <<"i", "m", "a", "g", "e", "/", "p", "n", "g">>
TypeJpeg == <<"i", "m", "a", "g", "e", "/", "j", "p", "e", "g">>
TypeText == <<"t", "e", "x", "t", "/", "p", "l", "a", "i", "n">>
TypePdfImage == <<"a", "p", "p", "/", "i", "m", "a", "g", "e", "/">>
TypeEmpty == <<>>

File(name, type) == [name |-> name, type |-> type]
NoFile == File("", TypeEmpty)

ImageFiles == {File("a.png", TypePng), File("b.jpg", TypeJpeg)}
OtherFiles == {File("c.txt", TypeText), File("d", TypeEmpty),
               File("e.bin", TypePdfImage)}
Files == ImageFiles \cup OtherFiles

\* e.dataTransfer.files / e.target.files: a FileList, possibly empty
FileLists == {<<>>} \cup {<<f>> : f \in Files}
                    \cup {<<File("c.txt", TypeText), File("a.png", TypePng)>>}

----------------------------------------------------------------------------
(* The backend, seen from the client: what a request can settle with *)

\* HTTP statuses the endpoint answers with; Response.ok is status in 200..299
Statuses == {200, 201, 404, 500}
ResponseOk(status) == status >= 200 /\ status <= 299

\* message of the TypeError fetch rejects with
TransportMessages == {"Failed to fetch"}

\* message of the SyntaxError json() rejects with.  The text depends on the
\* body and on the runtime: for an empty body it comes with or without the
\* prefix naming the json() call, from one run to the next; for a body that
\* is not JSON (here x and <html>) it names the offending token.
DecodeMessages ==
    {"Unexpected end of JSON input",
     "Failed to execute 'json' on 'Response': Unexpected end of JSON input",
     "Unexpected token 'x', \"x\" is not valid JSON",
     "Unexpected token '<', \"<html>\" is not valid JSON"}
FailedMessage == "Failed to analyze image"

Track(name, ms) == [name |-> name, duration_ms |-> ms]

\* The decoded success body the backend produces for an image
AnalysisOf(file) ==
    IF file.name = "a.png"
    THEN [t |-> "object",
          mood_analysis |-> [primary_mood |-> "Calm"],
          music_recommendations |->
              [mood |-> "calm", track_count |-> 2,
               tracks |-> <<Track("x", 65000), Track("y", 5000)>>]]
    ELSE [t |-> "object",
          mood_analysis |-> [primary_mood |-> "ecstatic"],
          music_recommendations |->
              [mood |-> "ecstatic", track_count |-> 3,
               tracks |-> <<Track("z", 600000), Track("x", 65000),
                            Track("w", 119500)>>]]

\* What response.json() can resolve with: the analysis, or the JSON text `null`
DecodedBodies(file) == {AnalysisOf(file), Null}

\* FileReader.result after readAsDataURL: a data: URL of the file, null on a read error
DataURL(file) == [t |-> "dataurl", type |-> file.type, content |-> file.name]
ReadResults(file) == {DataURL(file), Null}

----------------------------------------------------------------------------
(* MusicRecommendations.formatDuration, on strings as sequences of characters *)

DigitChars == <<"0", "1", "2", "3", "4", "5", "6", "7", "8", "9">>

\* the decimal text (Number.prototype.toString) of a non-negative integer
RECURSIVE NumberToString(_)
NumberToString(n) ==
    IF n < 10 THEN <<DigitChars[n + 1]>>
    ELSE NumberToString(n \div 10) \o <<DigitChars[(n % 10) + 1]>>

\* (num / den).toFixed(0) for non-negative num: the nearest integer, the larger
\* one when two are equally near
ToFixed0(num, den) == NumberToString((2 * num + den) \div (2 * den))

\* Variant of padStart: no padding
padStartNone(s, n, c) == s

\* String.prototype.padStart(n, c)
RECURSIVE padStart(_, _, _)
padStart(s, n, c) == IF Len(s) >= n THEN s ELSE padStart(<<c>> \o s, n, c)

formatDuration(ms) ==
    LET minutes == ms \div 60000
        seconds == ToFixed0(ms % 60000, 1000)
    IN  NumberToString(minutes) \o <<":">> \o padStart(seconds, 2, "0")

\* recommendations.tracks.map((track, index) => ...): one row per track, in order;
\* i is the 1-based position, the map's index is i - 1
trackRows(tracks) ==
    [i \in 1..Len(tracks) |->
        [number |-> (i - 1) + 1,
         name |-> tracks[i].name,
         duration |-> formatDuration(tracks[i].duration_ms)]]

----------------------------------------------------------------------------
(* MoodDisplay.getMoodEmoji.  A mood label and a property key are sequences   *)
(* of Unicode code points; an emoji is written as the string naming its code  *)
(* point.                                                                     *)

LowerChars == <<"a", "b", "c", "d", "e", "f", "g", "h", "i", "j", "k", "l", "m",
                "n", "o", "p", "q", "r", "s", "t", "u", "v", "w", "x", "y", "z">>
UpperChars == <<"A", "B", "C", "D", "E", "F", "G", "H", "I", "J", "K", "L", "M",
                "N", "O", "P", "Q", "R", "S", "T", "U", "V", "W", "X", "Y", "Z">>

IndexOf(seq, c) == CHOOSE k \in 1..Len(seq) : seq[k] = c
Occurs(seq, c) == \E k \in 1..Len(seq) : seq[k] = c

\* the code point of an ASCII letter or of the underscore
CodePoint(ch) ==
    IF Occurs(LowerChars, ch) THEN 96 + IndexOf(LowerChars, ch)
    ELSE IF Occurs(UpperChars, ch) THEN 64 + IndexOf(UpperChars, ch)
    ELSE 95

\* a string literal of ASCII letters and underscores, as code points
Word(w) == [i \in 1..Len(w) |-> CodePoint(w[i])]

\* The simple lower-case mappings of the Unicode Character Database (version
\* 17.0, as are the two property tables below): an entry
\* <<first, last, step, delta>> maps first, first + step, ..., last to the
\* code point delta further on.
LowerCaseMapping ==
    <<
       <<65, 90, 1, 32>>, <<192, 214, 1, 32>>, <<216, 222, 1, 32>>, <<256, 302, 2, 1>>,
       <<306, 310, 2, 1>>, <<313, 327, 2, 1>>, <<330, 374, 2, 1>>, <<376, 376, 1, -121>>,
       <<377, 381, 2, 1>>, <<385, 385, 1, 210>>, <<386, 388, 2, 1>>, <<390, 390, 1, 206>>,
       <<391, 391, 1, 1>>, <<393, 394, 1, 205>>, <<395, 395, 1, 1>>, <<398, 398, 1, 79>>,
       <<399, 399, 1, 202>>, <<400, 400, 1, 203>>, <<401, 401, 1, 1>>, <<403, 403, 1, 205>>,
       <<404, 404, 1, 207>>, <<406, 406, 1, 211>>, <<407, 407, 1, 209>>, <<408, 408, 1, 1>>,
       <<412, 412, 1, 211>>, <<413, 413, 1, 213>>, <<415, 415, 1, 214>>, <<416, 420, 2, 1>>,
       <<422, 422, 1, 218>>, <<423, 423, 1, 1>>, <<425, 425, 1, 218>>, <<428, 428, 1, 1>>,
       <<430, 430, 1, 218>>, <<431, 431, 1, 1>>, <<433, 434, 1, 217>>, <<435, 437, 2, 1>>,
       <<439, 439, 1, 219>>, <<440, 440, 1, 1>>, <<444, 444, 1, 1>>, <<452, 452, 1, 2>>,
       <<453, 453, 1, 1>>, <<455, 455, 1, 2>>, <<456, 456, 1, 1>>, <<458, 458, 1, 2>>,
       <<459, 475, 2, 1>>, <<478, 494, 2, 1>>, <<497, 497, 1, 2>>, <<498, 500, 2, 1>>,
       <<502, 502, 1, -97>>, <<503, 503, 1, -56>>, <<504, 542, 2, 1>>, <<544, 544, 1, -130>>,
       <<546, 562, 2, 1>>, <<570, 570, 1, 10795>>, <<571, 571, 1, 1>>, <<573, 573, 1, -163>>,
       <<574, 574, 1, 10792>>, <<577, 577, 1, 1>>, <<579, 579, 1, -195>>, <<580, 580, 1, 69>>,
       <<581, 581, 1, 71>>, <<582, 590, 2, 1>>, <<880, 882, 2, 1>>, <<886, 886, 1, 1>>,
       <<895, 895, 1, 116>>, <<902, 902, 1, 38>>, <<904, 906, 1, 37>>, <<908, 908, 1, 64>>,
       <<910, 911, 1, 63>>, <<913, 929, 1, 32>>, <<931, 939, 1, 32>>, <<975, 975, 1, 8>>,
       <<984, 1006, 2, 1>>, <<1012, 1012, 1, -60>>, <<1015, 1015, 1, 1>>, <<1017, 1017, 1, -7>>,
       <<1018, 1018, 1, 1>>, <<1021, 1023, 1, -130>>, <<1024, 1039, 1, 80>>, <<1040, 1071, 1, 32>>,
       <<1120, 1152, 2, 1>>, <<1162, 1214, 2, 1>>, <<1216, 1216, 1, 15>>, <<1217, 1229, 2, 1>>,
       <<1232, 1326, 2, 1>>, <<1329, 1366, 1, 48>>, <<4256, 4293, 1, 7264>>, <<4295, 4295, 1, 7264>>,
       <<4301, 4301, 1, 7264>>, <<5024, 5103, 1, 38864>>, <<5104, 5109, 1, 8>>, <<7305, 7305, 1, 1>>,
       <<7312, 7354, 1, -3008>>, <<7357, 7359, 1, -3008>>, <<7680, 7828, 2, 1>>, <<7838, 7838, 1, -7615>>,
       <<7840, 7934, 2, 1>>, <<7944, 7951, 1, -8>>, <<7960, 7965, 1, -8>>, <<7976, 7983, 1, -8>>,
       <<7992, 7999, 1, -8>>, <<8008, 8013, 1, -8>>, <<8025, 8031, 2, -8>>, <<8040, 8047, 1, -8>>,
       <<8072, 8079, 1, -8>>, <<8088, 8095, 1, -8>>, <<8104, 8111, 1, -8>>, <<8120, 8121, 1, -8>>,
       <<8122, 8123, 1, -74>>, <<8124, 8124, 1, -9>>, <<8136, 8139, 1, -86>>, <<8140, 8140, 1, -9>>,
       <<8152, 8153, 1, -8>>, <<8154, 8155, 1, -100>>, <<8168, 8169, 1, -8>>, <<8170, 8171, 1, -112>>,
       <<8172, 8172, 1, -7>>, <<8184, 8185, 1, -128>>, <<8186, 8187, 1, -126>>, <<8188, 8188, 1, -9>>,
       <<8486, 8486, 1, -7517>>, <<8490, 8490, 1, -8383>>, <<8491, 8491, 1, -8262>>, <<8498, 8498, 1, 28>>,
       <<8544, 8559, 1, 16>>, <<8579, 8579, 1, 1>>, <<9398, 9423, 1, 26>>, <<11264, 11311, 1, 48>>,
       <<11360, 11360, 1, 1>>, <<11362, 11362, 1, -10743>>, <<11363, 11363, 1, -3814>>, <<11364, 11364, 1, -10727>>,
       <<11367, 11371, 2, 1>>, <<11373, 11373, 1, -10780>>, <<11374, 11374, 1, -10749>>, <<11375, 11375, 1, -10783>>,
       <<11376, 11376, 1, -10782>>, <<11378, 11378, 1, 1>>, <<11381, 11381, 1, 1>>, <<11390, 11391, 1, -10815>>,
       <<11392, 11490, 2, 1>>, <<11499, 11501, 2, 1>>, <<11506, 11506, 1, 1>>, <<42560, 42604, 2, 1>>,
       <<42624, 42650, 2, 1>>, <<42786, 42798, 2, 1>>, <<42802, 42862, 2, 1>>, <<42873, 42875, 2, 1>>,
       <<42877, 42877, 1, -35332>>, <<42878, 42886, 2, 1>>, <<42891, 42891, 1, 1>>, <<42893, 42893, 1, -42280>>,
       <<42896, 42898, 2, 1>>, <<42902, 42920, 2, 1>>, <<42922, 42922, 1, -42308>>, <<42923, 42923, 1, -42319>>,
       <<42924, 42924, 1, -42315>>, <<42925, 42925, 1, -42305>>, <<42926, 42926, 1, -42308>>, <<42928, 42928, 1, -42258>>,
       <<42929, 42929, 1, -42282>>, <<42930, 42930, 1, -42261>>, <<42931, 42931, 1, 928>>, <<42932, 42946, 2, 1>>,
       <<42948, 42948, 1, -48>>, <<42949, 42949, 1, -42307>>, <<42950, 42950, 1, -35384>>, <<42951, 42953, 2, 1>>,
       <<42955, 42955, 1, -42343>>, <<42956, 42970, 2, 1>>, <<42972, 42972, 1, -42561>>, <<42997, 42997, 1, 1>>,
       <<65313, 65338, 1, 32>>, <<66560, 66599, 1, 40>>, <<66736, 66771, 1, 40>>, <<66928, 66938, 1, 39>>,
       <<66940, 66954, 1, 39>>, <<66956, 66962, 1, 39>>, <<66964, 66965, 1, 39>>, <<68736, 68786, 1, 64>>,
       <<68944, 68965, 1, 32>>, <<71840, 71871, 1, 32>>, <<93760, 93791, 1, 32>>, <<93856, 93880, 1, 27>>,
       <<125184, 125217, 1, 34>>
    >>

\* U+0130 (I with dot above) lower-cases to i followed by combining dot above
DottedCapitalI == 304
DottedCapitalILower == <<105, 775>>

\* capital sigma, and the small final sigma
CapitalSigma == 931
FinalSigmaLower == 962

\* Cased characters that are not Case_Ignorable, as ranges <<first, last>>
CasedRanges ==
    <<
       <<65, 90>>, <<97, 122>>, <<170, 170>>, <<181, 181>>, <<186, 186>>, <<192, 214>>,
       <<216, 246>>, <<248, 442>>, <<444, 447>>, <<452, 659>>, <<662, 687>>, <<880, 883>>,
       <<886, 887>>, <<891, 893>>, <<895, 895>>, <<902, 902>>, <<904, 906>>, <<908, 908>>,
       <<910, 929>>, <<931, 1013>>, <<1015, 1153>>, <<1162, 1327>>, <<1329, 1366>>, <<1376, 1416>>,
       <<4256, 4293>>, <<4295, 4295>>, <<4301, 4301>>, <<4304, 4346>>, <<4349, 4351>>, <<5024, 5109>>,
       <<5112, 5117>>, <<7296, 7306>>, <<7312, 7354>>, <<7357, 7359>>, <<7424, 7467>>, <<7531, 7543>>,
       <<7545, 7578>>, <<7680, 7957>>, <<7960, 7965>>, <<7968, 8005>>, <<8008, 8013>>, <<8016, 8023>>,
       <<8025, 8025>>, <<8027, 8027>>, <<8029, 8029>>, <<8031, 8061>>, <<8064, 8116>>, <<8118, 8124>>,
       <<8126, 8126>>, <<8130, 8132>>, <<8134, 8140>>, <<8144, 8147>>, <<8150, 8155>>, <<8160, 8172>>,
       <<8178, 8180>>, <<8182, 8188>>, <<8450, 8450>>, <<8455, 8455>>, <<8458, 8467>>, <<8469, 8469>>,
       <<8473, 8477>>, <<8484, 8484>>, <<8486, 8486>>, <<8488, 8488>>, <<8490, 8493>>, <<8495, 8500>>,
       <<8505, 8505>>, <<8508, 8511>>, <<8517, 8521>>, <<8526, 8526>>, <<8544, 8575>>, <<8579, 8580>>,
       <<9398, 9449>>, <<11264, 11387>>, <<11390, 11492>>, <<11499, 11502>>, <<11506, 11507>>, <<11520, 11557>>,
       <<11559, 11559>>, <<11565, 11565>>, <<42560, 42605>>, <<42624, 42651>>, <<42786, 42863>>, <<42865, 42887>>,
       <<42891, 42894>>, <<42896, 42972>>, <<42997, 42998>>, <<43002, 43002>>, <<43824, 43866>>, <<43872, 43880>>,
       <<43888, 43967>>, <<64256, 64262>>, <<64275, 64279>>, <<65313, 65338>>, <<65345, 65370>>, <<66560, 66639>>,
       <<66736, 66771>>, <<66776, 66811>>, <<66928, 66938>>, <<66940, 66954>>, <<66956, 66962>>, <<66964, 66965>>,
       <<66967, 66977>>, <<66979, 66993>>, <<66995, 67001>>, <<67003, 67004>>, <<68736, 68786>>, <<68800, 68850>>,
       <<68944, 68965>>, <<68976, 68997>>, <<71840, 71903>>, <<93760, 93823>>, <<93856, 93880>>, <<93883, 93907>>,
       <<119808, 119892>>, <<119894, 119964>>, <<119966, 119967>>, <<119970, 119970>>, <<119973, 119974>>, <<119977, 119980>>,
       <<119982, 119993>>, <<119995, 119995>>, <<119997, 120003>>, <<120005, 120069>>, <<120071, 120074>>, <<120077, 120084>>,
       <<120086, 120092>>, <<120094, 120121>>, <<120123, 120126>>, <<120128, 120132>>, <<120134, 120134>>, <<120138, 120144>>,
       <<120146, 120485>>, <<120488, 120512>>, <<120514, 120538>>, <<120540, 120570>>, <<120572, 120596>>, <<120598, 120628>>,
       <<120630, 120654>>, <<120656, 120686>>, <<120688, 120712>>, <<120714, 120744>>, <<120746, 120770>>, <<120772, 120779>>,
       <<122624, 122633>>, <<122635, 122654>>, <<122661, 122666>>, <<125184, 125251>>, <<127280, 127305>>, <<127312, 127337>>,
       <<127344, 127369>>
    >>

\* Case_Ignorable characters, as ranges <<first, last>>
CaseIgnorableRanges ==
    <<
       <<39, 39>>, <<46, 46>>, <<58, 58>>, <<94, 94>>, <<96, 96>>, <<168, 168>>,
       <<173, 173>>, <<175, 175>>, <<180, 180>>, <<183, 184>>, <<688, 879>>, <<884, 885>>,
       <<890, 890>>, <<900, 901>>, <<903, 903>>, <<1155, 1161>>, <<1369, 1369>>, <<1375, 1375>>,
       <<1425, 1469>>, <<1471, 1471>>, <<1473, 1474>>, <<1476, 1477>>, <<1479, 1479>>, <<1524, 1524>>,
       <<1536, 1541>>, <<1552, 1562>>, <<1564, 1564>>, <<1600, 1600>>, <<1611, 1631>>, <<1648, 1648>>,
       <<1750, 1757>>, <<1759, 1768>>, <<1770, 1773>>, <<1807, 1807>>, <<1809, 1809>>, <<1840, 1866>>,
       <<1958, 1968>>, <<2027, 2037>>, <<2042, 2042>>, <<2045, 2045>>, <<2070, 2093>>, <<2137, 2139>>,
       <<2184, 2184>>, <<2192, 2193>>, <<2199, 2207>>, <<2249, 2306>>, <<2362, 2362>>, <<2364, 2364>>,
       <<2369, 2376>>, <<2381, 2381>>, <<2385, 2391>>, <<2402, 2403>>, <<2417, 2417>>, <<2433, 2433>>,
       <<2492, 2492>>, <<2497, 2500>>, <<2509, 2509>>, <<2530, 2531>>, <<2558, 2558>>, <<2561, 2562>>,
       <<2620, 2620>>, <<2625, 2626>>, <<2631, 2632>>, <<2635, 2637>>, <<2641, 2641>>, <<2672, 2673>>,
       <<2677, 2677>>, <<2689, 2690>>, <<2748, 2748>>, <<2753, 2757>>, <<2759, 2760>>, <<2765, 2765>>,
       <<2786, 2787>>, <<2810, 2815>>, <<2817, 2817>>, <<2876, 2876>>, <<2879, 2879>>, <<2881, 2884>>,
       <<2893, 2893>>, <<2901, 2902>>, <<2914, 2915>>, <<2946, 2946>>, <<3008, 3008>>, <<3021, 3021>>,
       <<3072, 3072>>, <<3076, 3076>>, <<3132, 3132>>, <<3134, 3136>>, <<3142, 3144>>, <<3146, 3149>>,
       <<3157, 3158>>, <<3170, 3171>>, <<3201, 3201>>, <<3260, 3260>>, <<3263, 3263>>, <<3270, 3270>>,
       <<3276, 3277>>, <<3298, 3299>>, <<3328, 3329>>, <<3387, 3388>>, <<3393, 3396>>, <<3405, 3405>>,
       <<3426, 3427>>, <<3457, 3457>>, <<3530, 3530>>, <<3538, 3540>>, <<3542, 3542>>, <<3633, 3633>>,
       <<3636, 3642>>, <<3654, 3662>>, <<3761, 3761>>, <<3764, 3772>>, <<3782, 3782>>, <<3784, 3790>>,
       <<3864, 3865>>, <<3893, 3893>>, <<3895, 3895>>, <<3897, 3897>>, <<3953, 3966>>, <<3968, 3972>>,
       <<3974, 3975>>, <<3981, 3991>>, <<3993, 4028>>, <<4038, 4038>>, <<4141, 4144>>, <<4146, 4151>>,
       <<4153, 4154>>, <<4157, 4158>>, <<4184, 4185>>, <<4190, 4192>>, <<4209, 4212>>, <<4226, 4226>>,
       <<4229, 4230>>, <<4237, 4237>>, <<4253, 4253>>, <<4348, 4348>>, <<4957, 4959>>, <<5906, 5908>>,
       <<5938, 5939>>, <<5970, 5971>>, <<6002, 6003>>, <<6068, 6069>>, <<6071, 6077>>, <<6086, 6086>>,
       <<6089, 6099>>, <<6103, 6103>>, <<6109, 6109>>, <<6155, 6159>>, <<6211, 6211>>, <<6277, 6278>>,
       <<6313, 6313>>, <<6432, 6434>>, <<6439, 6440>>, <<6450, 6450>>, <<6457, 6459>>, <<6679, 6680>>,
       <<6683, 6683>>, <<6742, 6742>>, <<6744, 6750>>, <<6752, 6752>>, <<6754, 6754>>, <<6757, 6764>>,
       <<6771, 6780>>, <<6783, 6783>>, <<6823, 6823>>, <<6832, 6877>>, <<6880, 6891>>, <<6912, 6915>>,
       <<6964, 6964>>, <<6966, 6970>>, <<6972, 6972>>, <<6978, 6978>>, <<7019, 7027>>, <<7040, 7041>>,
       <<7074, 7077>>, <<7080, 7081>>, <<7083, 7085>>, <<7142, 7142>>, <<7144, 7145>>, <<7149, 7149>>,
       <<7151, 7153>>, <<7212, 7219>>, <<7222, 7223>>, <<7288, 7293>>, <<7376, 7378>>, <<7380, 7392>>,
       <<7394, 7400>>, <<7405, 7405>>, <<7412, 7412>>, <<7416, 7417>>, <<7468, 7530>>, <<7544, 7544>>,
       <<7579, 7679>>, <<8125, 8125>>, <<8127, 8129>>, <<8141, 8143>>, <<8157, 8159>>, <<8173, 8175>>,
       <<8189, 8190>>, <<8203, 8207>>, <<8216, 8217>>, <<8228, 8228>>, <<8231, 8231>>, <<8234, 8238>>,
       <<8288, 8292>>, <<8294, 8303>>, <<8305, 8305>>, <<8319, 8319>>, <<8336, 8348>>, <<8400, 8432>>,
       <<11388, 11389>>, <<11503, 11505>>, <<11631, 11631>>, <<11647, 11647>>, <<11744, 11775>>, <<11823, 11823>>,
       <<12293, 12293>>, <<12330, 12333>>, <<12337, 12341>>, <<12347, 12347>>, <<12441, 12446>>, <<12540, 12542>>,
       <<40981, 40981>>, <<42232, 42237>>, <<42508, 42508>>, <<42607, 42610>>, <<42612, 42621>>, <<42623, 42623>>,
       <<42652, 42655>>, <<42736, 42737>>, <<42752, 42785>>, <<42864, 42864>>, <<42888, 42890>>, <<42993, 42996>>,
       <<43000, 43001>>, <<43010, 43010>>, <<43014, 43014>>, <<43019, 43019>>, <<43045, 43046>>, <<43052, 43052>>,
       <<43204, 43205>>, <<43232, 43249>>, <<43263, 43263>>, <<43302, 43309>>, <<43335, 43345>>, <<43392, 43394>>,
       <<43443, 43443>>, <<43446, 43449>>, <<43452, 43453>>, <<43471, 43471>>, <<43493, 43494>>, <<43561, 43566>>,
       <<43569, 43570>>, <<43573, 43574>>, <<43587, 43587>>, <<43596, 43596>>, <<43632, 43632>>, <<43644, 43644>>,
       <<43696, 43696>>, <<43698, 43700>>, <<43703, 43704>>, <<43710, 43711>>, <<43713, 43713>>, <<43741, 43741>>,
       <<43756, 43757>>, <<43763, 43764>>, <<43766, 43766>>, <<43867, 43871>>, <<43881, 43883>>, <<44005, 44005>>,
       <<44008, 44008>>, <<44013, 44013>>, <<64286, 64286>>, <<64434, 64450>>, <<65024, 65039>>, <<65043, 65043>>,
       <<65056, 65071>>, <<65106, 65106>>, <<65109, 65109>>, <<65279, 65279>>, <<65287, 65287>>, <<65294, 65294>>,
       <<65306, 65306>>, <<65342, 65342>>, <<65344, 65344>>, <<65392, 65392>>, <<65438, 65439>>, <<65507, 65507>>,
       <<65529, 65531>>, <<66045, 66045>>, <<66272, 66272>>, <<66422, 66426>>, <<67456, 67461>>, <<67463, 67504>>,
       <<67506, 67514>>, <<68097, 68099>>, <<68101, 68102>>, <<68108, 68111>>, <<68152, 68154>>, <<68159, 68159>>,
       <<68325, 68326>>, <<68900, 68903>>, <<68942, 68942>>, <<68969, 68973>>, <<68975, 68975>>, <<69291, 69292>>,
       <<69317, 69317>>, <<69370, 69375>>, <<69446, 69456>>, <<69506, 69509>>, <<69633, 69633>>, <<69688, 69702>>,
       <<69744, 69744>>, <<69747, 69748>>, <<69759, 69761>>, <<69811, 69814>>, <<69817, 69818>>, <<69821, 69821>>,
       <<69826, 69826>>, <<69837, 69837>>, <<69888, 69890>>, <<69927, 69931>>, <<69933, 69940>>, <<70003, 70003>>,
       <<70016, 70017>>, <<70070, 70078>>, <<70089, 70092>>, <<70095, 70095>>, <<70191, 70193>>, <<70196, 70196>>,
       <<70198, 70199>>, <<70206, 70206>>, <<70209, 70209>>, <<70367, 70367>>, <<70371, 70378>>, <<70400, 70401>>,
       <<70459, 70460>>, <<70464, 70464>>, <<70502, 70508>>, <<70512, 70516>>, <<70587, 70592>>, <<70606, 70606>>,
       <<70608, 70608>>, <<70610, 70610>>, <<70625, 70626>>, <<70712, 70719>>, <<70722, 70724>>, <<70726, 70726>>,
       <<70750, 70750>>, <<70835, 70840>>, <<70842, 70842>>, <<70847, 70848>>, <<70850, 70851>>, <<71090, 71093>>,
       <<71100, 71101>>, <<71103, 71104>>, <<71132, 71133>>, <<71219, 71226>>, <<71229, 71229>>, <<71231, 71232>>,
       <<71339, 71339>>, <<71341, 71341>>, <<71344, 71349>>, <<71351, 71351>>, <<71453, 71453>>, <<71455, 71455>>,
       <<71458, 71461>>, <<71463, 71467>>, <<71727, 71735>>, <<71737, 71738>>, <<71995, 71996>>, <<71998, 71998>>,
       <<72003, 72003>>, <<72148, 72151>>, <<72154, 72155>>, <<72160, 72160>>, <<72193, 72202>>, <<72243, 72248>>,
       <<72251, 72254>>, <<72263, 72263>>, <<72273, 72278>>, <<72281, 72283>>, <<72330, 72342>>, <<72344, 72345>>,
       <<72544, 72544>>, <<72546, 72548>>, <<72550, 72550>>, <<72752, 72758>>, <<72760, 72765>>, <<72767, 72767>>,
       <<72850, 72871>>, <<72874, 72880>>, <<72882, 72883>>, <<72885, 72886>>, <<73009, 73014>>, <<73018, 73018>>,
       <<73020, 73021>>, <<73023, 73029>>, <<73031, 73031>>, <<73104, 73105>>, <<73109, 73109>>, <<73111, 73111>>,
       <<73177, 73177>>, <<73459, 73460>>, <<73472, 73473>>, <<73526, 73530>>, <<73536, 73536>>, <<73538, 73538>>,
       <<73562, 73562>>, <<78896, 78912>>, <<78919, 78933>>, <<90398, 90409>>, <<90413, 90415>>, <<92912, 92916>>,
       <<92976, 92982>>, <<92992, 92995>>, <<93504, 93506>>, <<93547, 93548>>, <<94031, 94031>>, <<94095, 94111>>,
       <<94176, 94177>>, <<94179, 94180>>, <<94194, 94195>>, <<110576, 110579>>, <<110581, 110587>>, <<110589, 110590>>,
       <<113821, 113822>>, <<113824, 113827>>, <<118528, 118573>>, <<118576, 118598>>, <<119143, 119145>>, <<119155, 119170>>,
       <<119173, 119179>>, <<119210, 119213>>, <<119362, 119364>>, <<121344, 121398>>, <<121403, 121452>>, <<121461, 121461>>,
       <<121476, 121476>>, <<121499, 121503>>, <<121505, 121519>>, <<122880, 122886>>, <<122888, 122904>>, <<122907, 122913>>,
       <<122915, 122916>>, <<122918, 122922>>, <<122928, 122989>>, <<123023, 123023>>, <<123184, 123197>>, <<123566, 123566>>,
       <<123628, 123631>>, <<124139, 124143>>, <<124398, 124399>>, <<124643, 124643>>, <<124646, 124646>>, <<124654, 124655>>,
       <<124661, 124661>>, <<124671, 124671>>, <<125136, 125142>>, <<125252, 125259>>, <<127995, 127999>>, <<917505, 917505>>,
       <<917536, 917631>>, <<917760, 917999>>
    >>

InRanges(ranges, c) == \E k \in 1..Len(ranges) : c \in ranges[k][1]..ranges[k][2]
Cased(c) == InRanges(CasedRanges, c)
CaseIgnorable(c) == InRanges(CaseIgnorableRanges, c)

MapsLower(r, c) == c \in r[1]..r[2] /\ (c - r[1]) % r[3] = 0

\* the lower-case form of one character out of context, as a string
lowerOfChar(c) ==
    IF c = DottedCapitalI THEN DottedCapitalILower
    ELSE IF \E k \in 1..Len(LowerCaseMapping) : MapsLower(LowerCaseMapping[k], c)
    THEN LET r == LowerCaseMapping[CHOOSE k \in 1..Len(LowerCaseMapping) :
                                       MapsLower(LowerCaseMapping[k], c)]
         IN  <<c + r[4]>>
    ELSE <<c>>

\* going from position j towards the start of s (dir = -1) or towards its end
\* (dir = 1), skipping case-ignorable characters: is the first other
\* character a cased letter
RECURSIVE casedLetterNext(_, _, _)
casedLetterNext(s, j, dir) ==
    IF j < 1 \/ j > Len(s) THEN FALSE
    ELSE IF CaseIgnorable(s[j]) THEN casedLetterNext(s, j + dir, dir)
    ELSE Cased(s[j])

\* the Final_Sigma condition at position i of s
finalSigma(s, i) == casedLetterNext(s, i - 1, -1) /\ ~casedLetterNext(s, i + 1, 1)

\* String.prototype.toLowerCase: the lower-case forms of positions i.. of s
RECURSIVE lowerFrom(_, _)
lowerFrom(s, i) ==
    IF i > Len(s) THEN <<>>
    ELSE (IF s[i] = CapitalSigma /\ finalSigma(s, i) THEN <<FinalSigmaLower>>
          ELSE lowerOfChar(s[i])) \o lowerFrom(s, i + 1)

toLowerCase(s) == lowerFrom(s, 1)

Prop(key, value) == [key |-> key, value |-> value]

\* the object literal moodEmojis: its own properties
moodEmojis ==
    <<Prop(Word(<<"c", "a", "l", "m">>), JStr("U+1F60C")),
       Prop(Word(<<"e", "n", "e", "r", "g", "e", "t", "i", "c">>), JStr("U+26A1")),
       Prop(Word(<<"r", "o", "m", "a", "n", "t", "i", "c">>), JStr("U+1F495")),
       Prop(Word(<<"d", "a", "r", "k">>), JStr("U+1F311")),
       Prop(Word(<<"m", "e", "l", "a", "n", "c", "h", "o", "l", "i", "c">>), JStr("U+1F614")),
       Prop(Word(<<"j", "o", "y", "f", "u", "l">>), JStr("U+1F604")),
       Prop(Word(<<"m", "y", "s", "t", "e", "r", "i", "o", "u", "s">>), JStr("U+1F52E")),
       Prop(Word(<<"a", "g", "g", "r", "e", "s", "s", "i", "v", "e">>), JStr("U+1F624")),
       Prop(Word(<<"d", "r", "e", "a", "m", "y">>), JStr("U+2728")),
       Prop(Word(<<"u", "p", "l", "i", "f", "t", "i", "n", "g">>), JStr("U+1F31F"))>>

FallbackEmoji == JStr("U+1F3A8")

\* properties every object literal inherits from Object.prototype
ObjectPrototype ==
    <<Prop(Word(<<"c", "o", "n", "s", "t", "r", "u", "c", "t", "o", "r">>), [t |-> "function", name |-> "Object"]),
       Prop(Word(<<"_", "_", "p", "r", "o", "t", "o", "_", "_">>), [t |-> "object", name |-> "Object.prototype"]),
       Prop(Word(<<"t", "o", "S", "t", "r", "i", "n", "g">>), [t |-> "function", name |-> "toString"]),
       Prop(Word(<<"v", "a", "l", "u", "e", "O", "f">>), [t |-> "function", name |-> "valueOf"]),
       Prop(Word(<<"h", "a", "s", "O", "w", "n", "P", "r", "o", "p", "e", "r", "t", "y">>), [t |-> "function", name |-> "hasOwnProperty"])>>

HasProp(props, key) == \E i \in 1..Len(props) : props[i].key = key
PropValue(props, key) == props[CHOOSE i \in 1..Len(props) : props[i].key = key].value

\* obj[key] of an object literal: own property, else inherited, else undefined
GetProperty(own, key) ==
    IF HasProp(own, key) THEN PropValue(own, key)
    ELSE IF HasProp(ObjectPrototype, key) THEN PropValue(ObjectPrototype, key)
    ELSE Undefined

\* a || b
LogicalOr(a, b) == IF Truthy(a) THEN a ELSE b

getMoodEmoji(mood) == LogicalOr(GetProperty(moodEmojis, toLowerCase(mood)), FallbackEmoji)

----------------------------------------------------------------------------
(* History of the last handler segment *)

\* The lifecycle value, as the three flags the App holds
Lifecycle == [analyzing |-> analyzing, result |-> result # Null, error |-> error # Null]

\* op: the segment; file, req: the file and the request/reader number it is about;
\* status, data: what a fetch / a json() resolved with; alert: window.alert was
\* called; key: the key of the ImageUpload instance the segment ran in;
\* from: the lifecycle value the segment started from
Ev(op, file, req, status, data, alert, key) ==
    [op |-> op, file |-> file, req |-> req, status |-> status, data |-> data,
     alert |-> alert, key |-> key, from |-> Lifecycle]

----------------------------------------------------------------------------
(* State after construction: App mounted, ImageUpload mounted with key 0 *)

Init ==
    /\ analyzing = FALSE
    /\ result = Null
    /\ error = Null
    /\ resetKey = 0
    /\ preview = Null
    /\ requests = {}
    /\ readers = {}
    /\ nextId = 1
    /\ last = Ev("init", NoFile, 0, 0, Null, FALSE, 0)
    /\ durIn = 0
    /\ durOut = <<>>
    /\ moodIn = <<>>
    /\ moodOut = NotCalled

----------------------------------------------------------------------------
(* Variant of handleImageUpload: the previous result and error are not cleared *)
handleImageUploadNoClear(file) ==
    /\ analyzing' = TRUE
    /\ requests' = requests \cup {[id |-> nextId, file |-> file, pc |-> "fetch"]}
    /\ UNCHANGED <<error, result, resetKey>>

(* App.handleImageUpload, up to its first await: the submit operation *)

handleImageUpload(file) ==
    /\ analyzing' = TRUE
    /\ error' = Null
    /\ result' = Null
    /\ requests' = requests \cup {[id |-> nextId, file |-> file, pc |-> "fetch"]}
    /\ UNCHANGED resetKey

(* Variant of handleFile: the preview decode is started but onImageUpload is *)
(* not called in the same step (the upload is left to the decode callback)   *)
handleFileNoUpload(file, alert) ==
    IF ~StartsWith(file.type, ImagePrefix)
    THEN /\ alert = TRUE
         /\ UNCHANGED <<appVars, preview, readers, nextId>>
    ELSE /\ alert = FALSE
         /\ nextId <= MaxSubmits
         /\ readers' = readers \cup {[id |-> nextId, key |-> resetKey, file |-> file]}
         /\ nextId' = nextId + 1
         /\ UNCHANGED <<appVars, preview>>

(* ImageUpload.handleFile: validate, start the preview decode, submit.      *)
(* alert is the value recorded for the step: TRUE iff window.alert is called *)
handleFile(file, alert) ==
    IF ~StartsWith(file.type, ImagePrefix)
    THEN /\ alert = TRUE
         /\ UNCHANGED <<appVars, preview, readers, nextId>>
    ELSE /\ alert = FALSE
         /\ nextId <= MaxSubmits
         /\ readers' = readers \cup {[id |-> nextId, key |-> resetKey, file |-> file]}
         /\ handleImageUpload(file)
         /\ nextId' = nextId + 1
         /\ UNCHANGED preview

\* ImageUpload.handleDrop with e.dataTransfer.files = files
handleDrop(files) ==
    /\ IF Len(files) > 0
       THEN \E alert \in BOOLEAN :
                /\ handleFile(files[1], alert)
                /\ last' = Ev("drop", files[1], 0, 0, Null, alert, resetKey)
       ELSE /\ last' = Ev("drop", NoFile, 0, 0, Null, FALSE, resetKey)
            /\ UNCHANGED <<appVars, preview, readers, nextId>>
    /\ UNCHANGED fmtVars

\* ImageUpload.handleChange of the hidden file input with e.target.files = files
handleChange(files) ==
    /\ IF Len(files) > 0
       THEN \E alert \in BOOLEAN :
                /\ handleFile(files[1], alert)
                /\ last' = Ev("change", files[1], 0, 0, Null, alert, resetKey)
       ELSE /\ last' = Ev("change", NoFile, 0, 0, Null, FALSE, resetKey)
            /\ UNCHANGED <<appVars, preview, readers, nextId>>
    /\ UNCHANGED fmtVars

\* FileReader.onloadend of reader rd, with reader.result = value.
\* setPreview of an ImageUpload instance that a reset unmounted changes nothing.
onloadend(rd, value) ==
    /\ rd \in readers
    /\ readers' = readers \ {rd}
    /\ preview' = (IF rd.key = resetKey THEN value ELSE preview)
    /\ last' = Ev("onloadend", rd.file, rd.id, 0, value, FALSE, rd.key)
    /\ UNCHANGED <<appVars, nextId, fmtVars>>

----------------------------------------------------------------------------
(* App.handleImageUpload after its awaits *)

\* Variant of catchFinally: no finally block, analyzing is left as it is
catchNoFinally(message) ==
    /\ error' = JStr(message)
    /\ UNCHANGED <<analyzing, result>>

\* catch (err) { setError(err.message) } finally { setAnalyzing(false) }
catchFinally(message) ==
    /\ error' = JStr(message)
    /\ analyzing' = FALSE
    /\ UNCHANGED result

\* await fetch(...) rejects: transport failure
fetchRejects(r, message) ==
    /\ r \in requests /\ r.pc = "fetch"
    /\ requests' = requests \ {r}
    /\ catchFinally(message)
    /\ last' = Ev("fetchRejects", r.file, r.id, 0, Null, FALSE, resetKey)
    /\ UNCHANGED <<resetKey, uploadVars, nextId, fmtVars>>

\* await fetch(...) resolves with a response of the given status
fetchResolves(r, status) ==
    /\ r \in requests /\ r.pc = "fetch"
    /\ IF ~ResponseOk(status)
       THEN /\ requests' = requests \ {r}
            /\ catchFinally(FailedMessage)
       ELSE /\ requests' = (requests \ {r}) \cup {[r EXCEPT !.pc = "json"]}
            /\ UNCHANGED <<analyzing, result, error>>
    /\ last' = Ev("fetchResolves", r.file, r.id, status, Null, FALSE, resetKey)
    /\ UNCHANGED <<resetKey, uploadVars, nextId, fmtVars>>

\* await response.json() resolves with data: setResult(data), finally
jsonResolves(r, data) ==
    /\ r \in requests /\ r.pc = "json"
    /\ requests' = requests \ {r}
    /\ result' = data
    /\ analyzing' = FALSE
    /\ UNCHANGED error
    /\ last' = Ev("jsonResolves", r.file, r.id, 0, data, FALSE, resetKey)
    /\ UNCHANGED <<resetKey, uploadVars, nextId, fmtVars>>

\* await response.json() rejects: the success body does not decode
jsonRejects(r, message) ==
    /\ r \in requests /\ r.pc = "json"
    /\ requests' = requests \ {r}
    /\ catchFinally(message)
    /\ last' = Ev("jsonRejects", r.file, r.id, 0, Null, FALSE, resetKey)
    /\ UNCHANGED <<resetKey, uploadVars, nextId, fmtVars>>

----------------------------------------------------------------------------
(* Variant of handleReset: the key is not changed, so ImageUpload is not remounted *)
handleResetNoRemount ==
    /\ Truthy(result) \/ Truthy(error)
    /\ result' = Null
    /\ error' = Null
    /\ analyzing' = FALSE
    /\ last' = Ev("reset", NoFile, 0, 0, Null, FALSE, resetKey)
    /\ UNCHANGED <<resetKey, preview, requests, readers, nextId, fmtVars>>

(* App.handleReset: the click handler of the reset button, which is         *)
(* rendered only when (result || error).  The new key remounts ImageUpload: *)
(* the new instance starts from its useState initial values.                *)

resetButtonShown == Truthy(result) \/ Truthy(error)

handleReset ==
    /\ resetButtonShown
    /\ result' = Null
    /\ error' = Null
    /\ analyzing' = FALSE
    /\ resetKey' = resetKey + 1
    /\ preview' = Null
    /\ last' = Ev("reset", NoFile, 0, 0, Null, FALSE, resetKey)
    /\ UNCHANGED <<requests, readers, nextId, fmtVars>>

----------------------------------------------------------------------------
(* App render: what the current state shows *)

errorPanelShown == Truthy(error)
loadingShown == analyzing
moodPanelShown == Truthy(result)
musicPanelShown == Truthy(result)
renderedTracks ==
    IF musicPanelShown THEN trackRows(result.music_recommendations.tracks) ELSE <<>>

----------------------------------------------------------------------------
(* formatDuration applied to one duration drawn from Durations *)

Durations ==
    {h * 500 + d : h \in 0..MaxHalfSeconds, d \in {0, 1, 499}}
        \cup {5000, 65000, 600000}

InitFmt ==
    /\ analyzing = FALSE
    /\ result = Null
    /\ error = Null
    /\ resetKey = 0
    /\ preview = Null
    /\ requests = {}
    /\ readers = {}
    /\ nextId = 1
    /\ last = Ev("init", NoFile, 0, 0, Null, FALSE, 0)
    /\ durIn \in Durations
    /\ durOut = <<>>
    /\ moodIn = <<>>
    /\ moodOut = NotCalled

callFormatDuration ==
    /\ durOut = <<>>
    /\ durOut' = formatDuration(durIn)
    /\ UNCHANGED <<appVars, uploadVars, nextId, last, durIn, moodIn, moodOut>>

NextFmt == callFormatDuration

SpecFmt == InitFmt /\ [][NextFmt]_vars

----------------------------------------------------------------------------
(* getMoodEmoji applied to one mood label drawn from MoodLabels *)

\* s with its first k characters in upper case
UpperFirst(s, k) ==
    [i \in 1..Len(s) |->
        IF i <= k /\ s[i] \in CodePoint("a")..CodePoint("z")
        THEN s[i] - CodePoint("a") + CodePoint("A")
        ELSE s[i]]

\* labels that are no mood of the table
OtherWords ==
    {Word(<<"e", "c", "s", "t", "a", "t", "i", "c">>),
     Word(<<"h", "a", "p", "p", "y">>),
     <<>>,
     Word(<<"c", "o", "n", "s", "t", "r", "u", "c", "t", "o", "r">>),
     Word(<<"_", "_", "p", "r", "o", "t", "o", "_", "_">>),
     Word(<<"t", "o", "s", "t", "r", "i", "n", "g">>)}

LabelWords == {moodEmojis[i].key : i \in 1..Len(moodEmojis)} \cup OtherWords

\* code points outside ASCII that occur in the labels
EAcute == 201
ARing == 197
AMacron == 256
CyrillicA == 1040
YDiaeresis == 376
CombiningDot == 775
KelvinSign == 8490
AngstromSign == 8491

\* labels with characters outside ASCII
WideLabels ==
    {Word(<<"D", "A", "R">>) \o <<KelvinSign>>,
     Word(<<"d", "a", "r">>) \o <<KelvinSign>>,
     <<EAcute>> \o Word(<<"c", "s", "t", "a", "t", "i", "c">>),
     Word(<<"C">>) \o <<ARing>> \o Word(<<"L", "M">>),
     Word(<<"C">>) \o <<AngstromSign>> \o Word(<<"L", "M">>),
     Word(<<"D">>) \o <<AMacron>> \o Word(<<"R", "K">>),
     Word(<<"D">>) \o <<CyrillicA>> \o Word(<<"R", "K">>),
     Word(<<"U", "P", "L">>) \o <<DottedCapitalI>> \o Word(<<"F", "T", "I", "N", "G">>),
     Word(<<"J", "O">>) \o <<YDiaeresis>> \o Word(<<"F", "U", "L">>),
     Word(<<"C", "A", "L", "M">>) \o <<CapitalSigma>>,
     <<CapitalSigma>> \o Word(<<"C", "A", "L", "M">>),
     Word(<<"C", "A">>) \o <<CapitalSigma, CombiningDot>>,
     Word(<<"C", "A">>) \o <<CapitalSigma, CombiningDot>> \o Word(<<"L", "M">>),
     <<CapitalSigma>>}

MoodLabels == {UpperFirst(w, k) : w \in LabelWords, k \in 0..MaxUpper} \cup WideLabels

InitMood ==
    /\ analyzing = FALSE
    /\ result = Null
    /\ error = Null
    /\ resetKey = 0
    /\ preview = Null
    /\ requests = {}
    /\ readers = {}
    /\ nextId = 1
    /\ last = Ev("init", NoFile, 0, 0, Null, FALSE, 0)
    /\ durIn = 0
    /\ durOut = <<>>
    /\ moodIn \in MoodLabels
    /\ moodOut = NotCalled

callGetMoodEmoji ==
    /\ moodOut = NotCalled
    /\ moodOut' = getMoodEmoji(moodIn)
    /\ UNCHANGED <<appVars, uploadVars, nextId, last, durIn, durOut, moodIn>>

NextMood == callGetMoodEmoji

SpecMood == InitMood /\ [][NextMood]_vars

----------------------------------------------------------------------------

Next ==
    \/ \E files \in FileLists : handleDrop(files)
    \/ \E files \in FileLists : handleChange(files)
    \/ \E rd \in readers : \E value \in ReadResults(rd.file) : onloadend(rd, value)
    \/ \E r \in requests : \E m \in TransportMessages : fetchRejects(r, m)
    \/ \E r \in requests : \E status \in Statuses : fetchResolves(r, status)
    \/ \E r \in requests : \E data \in DecodedBodies(r.file) : jsonResolves(r, data)
    \/ \E r \in requests : \E m \in DecodeMessages : jsonRejects(r, m)
    \/ handleReset

Spec == Init /\ [][Next]_vars

\* Some continuation of handleImageUpload runs: a pending fetch or json() settles
Completion ==
    \E r \in requests :
        \/ \E m \in TransportMessages : fetchRejects(r, m)
        \/ \E status \in Statuses : fetchResolves(r, status)
        \/ \E data \in DecodedBodies(r.file) : jsonResolves(r, data)
        \/ \E m \in DecodeMessages : jsonRejects(r, m)

\* The steps of Next when every offered FileList holds one image file (a file
\* that is rejected, or an empty list, changes nothing but the history)
ImageLists == {<<f>> : f \in ImageFiles}

NextLive ==
    \/ \E files \in ImageLists : handleDrop(files)
    \/ \E files \in ImageLists : handleChange(files)
    \/ \E rd \in readers : \E value \in ReadResults(rd.file) : onloadend(rd, value)
    \/ Completion
    \/ handleReset

\* under the assumption that every pending fetch / json() eventually settles
SpecLive == Init /\ [][NextLive]_vars /\ WF_vars(Completion)

----------------------------------------------------------------------------
(* Vocabulary of the properties *)

Idle == ~analyzing /\ result = Null /\ error = Null
Succeeded == result # Null
Failed == error # Null

\* the last segment was a drop or a picker change offering an image file / a
\* file that is not an image (by the declared types of the input files)
OfferedImage(ev) == ev.op \in {"drop", "change"} /\ ev.file \in ImageFiles
OfferedOther(ev) == ev.op \in {"drop", "change"} /\ ev.file \in OtherFiles

\* the last segment was a failing completion of a request
NonSuccessStatus(ev) == ev.op = "fetchResolves" /\ (ev.status < 200 \/ ev.status > 299)
FailingCompletion(ev) ==
    NonSuccessStatus(ev) \/ ev.op = "fetchRejects" \/ ev.op = "jsonRejects"

\* the decimal value of a sequence of digit characters
RECURSIVE DigitsValue(_)
DigitsValue(s) ==
    IF s = <<>> THEN 0
    ELSE 10 * DigitsValue(SubSeq(s, 1, Len(s) - 1))
         + (CHOOSE d \in 0..9 : DigitChars[d + 1] = s[Len(s)])
IsDigits(s) == \A i \in 1..Len(s) : \E d \in 0..9 : DigitChars[d + 1] = s[i]

----------------------------------------------------------------------------
(* C1: the stored result and the stored error are never both non-null.     *)
(* Stated as claimed; two overlapping requests (see C2) refute it.         *)
C1_NeverBoth == ~(Succeeded /\ Failed)

(* C2: at most one analysis request is outstanding at any time: a file     *)
(* accepted while Analyzing issues no further request.                     *)
C2_SingleOutstanding == Cardinality(requests) <= 1

(* C3: every step that makes the result or the error non-null starts from  *)
(* a state whose analyzing flag is true.                                   *)
C3_EnteredFromAnalyzing ==
    (\/ (result # Null /\ ~last.from.result)
     \/ (error # Null /\ ~last.from.error)) => last.from.analyzing

(* C4: a file whose declared type does not begin with image/, offered by   *)
(* drop or picker in any state, raises the alert and changes neither       *)
(* analyzing, result, error, the preview, nor issues a request or a decode.*)
C4_RejectNonImage ==
    [][OfferedOther(last') =>
          /\ last'.alert
          /\ UNCHANGED <<analyzing, result, error, preview, requests, readers,
                         nextId>>]_vars

C4_Witness ==
    /\ OfferedOther(last) /\ last.op = "drop" /\ last.alert
    /\ analyzing /\ Cardinality(requests) = 1

(* C5: a reset yields result null, error null, analyzing false and an empty *)
(* preview, and the preview becomes non-empty again only by a decode of a   *)
(* file the mounted Upload Capture accepted: a decode started before the    *)
(* reset that completes after it leaves the preview empty.                  *)
C5_ResetYieldsIdle ==
    [][/\ last'.op = "reset" => Idle' /\ preview' = Null
       /\ (preview' # Null /\ preview' # preview) =>
              last'.op = "onloadend" /\ last'.key = resetKey']_vars

C5_Witness ==
    /\ last.op = "onloadend" /\ last.key < resetKey /\ last.data # Null
    /\ preview = Null /\ Idle

(* C6: right after a submit the state has analyzing true, result null and  *)
(* error null, also when the submit starts from Succeeded or Failed; no    *)
(* state has analyzing true with a non-null result or error.               *)
C6_SubmitClears ==
    /\ OfferedImage(last) => analyzing /\ result = Null /\ error = Null
    /\ analyzing => result = Null /\ error = Null

C6_Witness ==
    /\ OfferedImage(last) /\ ~last.from.analyzing
    /\ (last.from.result \/ last.from.error)
    /\ analyzing

(* C7: after a request completes with a non-success status the error is    *)
(* exactly "Failed to analyze image", the result is null, analyzing is     *)
(* false and neither the mood panel nor the music panel is rendered.       *)
C7_NonSuccessFails ==
    NonSuccessStatus(last) =>
        /\ error = JStr("Failed to analyze image")
        /\ result = Null
        /\ ~analyzing
        /\ ~moodPanelShown /\ ~musicPanelShown

(* C8: every failing completion (non-success status, transport failure,    *)
(* decode failure) ends in Failed(message): error a message, result null,  *)
(* analyzing false.                                                        *)
C8_FailuresEndFailed ==
    FailingCompletion(last) =>
        /\ error.t = "string" /\ error.v # ""
        /\ result = Null
        /\ ~analyzing

(* C9: after a request completes with a success status and a body decoded  *)
(* into an analysis result the state is Succeeded with the result equal to *)
(* that body, error null, analyzing false, and the tracks rendered in the  *)
(* body's order, numbered 1..n.                                            *)
C9_SuccessStoresBody ==
    (last.op = "jsonResolves" /\ last.data # Null) =>
        /\ Succeeded /\ result = last.data
        /\ error = Null
        /\ ~analyzing
        /\ LET tracks == last.data.music_recommendations.tracks
           IN  /\ Len(renderedTracks) = Len(tracks)
               /\ \A i \in 1..Len(tracks) :
                      /\ renderedTracks[i].number = i
                      /\ renderedTracks[i].name = tracks[i].name

(* C10: formatDuration(ms) is minutes ":" seconds, the minutes the decimal  *)
(* text of floor(ms / 60000), the seconds exactly two digits, the whole     *)
(* denoting the duration to the nearest second; 65000 gives "1:05", 600000  *)
(* gives "10:00", 5000 gives "0:05".                                        *)
C10_FormatDuration ==
    durOut # <<>> =>
        LET n == Len(durOut)
            mins == SubSeq(durOut, 1, n - 3)
            secs == SubSeq(durOut, n - 1, n)
        IN  /\ n >= 4 /\ durOut[n - 2] = ":"
            /\ IsDigits(mins) /\ IsDigits(secs)
            /\ (Len(mins) > 1 => mins[1] # "0")
            /\ DigitsValue(mins) = durIn \div 60000
            /\ (DigitsValue(mins) * 60 + DigitsValue(secs)) * 1000 - durIn \in -499..500
            /\ (durIn = 65000 => durOut = <<"1", ":", "0", "5">>)
            /\ (durIn = 600000 => durOut = <<"1", "0", ":", "0", "0">>)
            /\ (durIn = 5000 => durOut = <<"0", ":", "0", "5">>)

C10_Witness == durIn = 65000 /\ durOut = <<"1", ":", "0", "5">>

(* C11: the emoji shown for a mood label is the table entry of the         *)
(* lower-cased label when that is one of the ten moods, and the fallback   *)
(* emoji for every other label.                                            *)
C11_MoodEmoji ==
    /\ moodOut # NotCalled =>
        IF \E i \in 1..Len(moodEmojis) : toLowerCase(moodIn) = moodEmojis[i].key
        THEN \E i \in 1..Len(moodEmojis) :
               /\ toLowerCase(moodIn) = moodEmojis[i].key
               /\ moodOut = moodEmojis[i].value
        ELSE moodOut = JStr("U+1F3A8")
    /\ (moodIn = Word(<<"C", "a", "l", "m">>) /\ moodOut # NotCalled
            => moodOut = JStr("U+1F60C"))
    /\ (moodIn = Word(<<"D", "A", "R">>) \o <<KelvinSign>> /\ moodOut # NotCalled
            => moodOut = JStr("U+1F311"))
    /\ (moodIn = <<EAcute>> \o Word(<<"c", "s", "t", "a", "t", "i", "c">>) /\ moodOut # NotCalled
            => moodOut = JStr("U+1F3A8"))

(* C12: whenever the lifecycle is Idle no request is outstanding, and the  *)
(* analyzing flag is true in every state in which an issued request has    *)
(* not yet completed.                                                      *)
C12_IdleNoRequest ==
    /\ Idle => requests = {}
    /\ requests # {} => analyzing

(* C13: the lifecycle becomes Idle from a non-Idle state only by the reset *)
(* action: no request completion leaves the state Idle, and the reset      *)
(* action is taken only when a result or an error is present.              *)
C13_IdleOnlyByReset ==
    /\ (Idle /\ (last.from.analyzing \/ last.from.result \/ last.from.error)) =>
           last.op = "reset"
    /\ (FailingCompletion(last) \/ last.op = "jsonResolves") => ~Idle
    /\ last.op = "reset" => (last.from.result \/ last.from.error)

(* C14: each accepted image file issues, in the step that accepts it,      *)
(* exactly one request carrying that file, while its preview decode is     *)
(* still pending; a decode completion neither issues nor removes a request.*)
C14_OneRequestPerAccept ==
    [][/\ OfferedImage(last') =>
              \E r \in requests' :
                  /\ r \notin requests
                  /\ requests' = requests \cup {r}
                  /\ r.file = last'.file /\ r.pc = "fetch"
                  /\ \E rd \in readers' : rd.id = r.id /\ rd.file = r.file
       /\ last'.op = "onloadend" => requests' = requests]_vars

C14_Witness ==
    /\ OfferedImage(last)
    /\ \E r \in requests :
           /\ r.id = nextId - 1 /\ r.file = last.file /\ r.pc = "fetch"
           /\ \E rd \in readers : rd.id = r.id
    /\ last.from.result

(* C15: if every issued request eventually completes, every state with     *)
(* analyzing true is followed by a state with analyzing false that a       *)
(* completion has just produced, holding that request's outcome (the       *)
(* decoded body in result, or the message in error); and a failing         *)
(* completion issues no further request.                                   *)
C15_AnalyzingEnds ==
    /\ analyzing ~>
           (/\ ~analyzing
            /\ \/ FailingCompletion(last) /\ error # Null
               \/ last.op = "jsonResolves" /\ result = last.data)
    /\ [][FailingCompletion(last') =>
              /\ requests' \subseteq requests
              /\ nextId' = nextId]_vars

C15_Witness ==
    /\ FailingCompletion(last) /\ last.from.analyzing
    /\ ~analyzing /\ error # Null /\ requests = {}

(* C16: once every outstanding request has completed, the stored result or *)
(* error is the outcome of the most recently submitted file, and nothing   *)
(* stored comes from an earlier submission.                                *)
C16_LatestOutcomeStored ==
    (requests = {} /\ (FailingCompletion(last) \/ last.op = "jsonResolves")) =>
        /\ last.req = nextId - 1
        /\ IF last.op = "jsonResolves"
           THEN result = last.data /\ error = Null
           ELSE error # Null /\ result = Null

(* C17: once every preview decode of the mounted Upload Capture has        *)
(* completed, the preview shows the most recently accepted file: when the  *)
(* preview shows the file accepted last (known from its outstanding        *)
(* request r) and the last pending decode of the mounted instance, that of *)
(* an earlier file, completes with its data URL, the preview still shows   *)
(* the file accepted last.                                                 *)
C17_PreviewShowsLatest ==
    [][\A r \in requests :
          (/\ r.id = nextId - 1 /\ preview = DataURL(r.file)
           /\ last'.op = "onloadend" /\ last'.key = resetKey /\ last'.req < r.id
           /\ last'.data # Null
           /\ \A rd \in readers' : rd.key # resetKey) =>
              preview' = DataURL(r.file)]_vars

(* C18: the seconds field of formatDuration(ms) is two digits between 00   *)
(* and 59, and the output denotes a duration within one second of ms.      *)
C18_SecondsInRange ==
    durOut # <<>> =>
        LET n == Len(durOut)
            mins == SubSeq(durOut, 1, n - 3)
            secs == SubSeq(durOut, n - 1, n)
        IN  /\ n >= 4 /\ durOut[n - 2] = ":"
            /\ IsDigits(mins) /\ IsDigits(secs)
            /\ DigitsValue(secs) \in 0..59
            /\ (DigitsValue(mins) * 60 + DigitsValue(secs)) * 1000 - durIn \in -1000..1000

====
